---- MODULE Spec2Model ----
(***************************************************************************)
(* Model of controller.py (python-k8s-controller): the rollout             *)
(* orchestration of kubernetes deployments and services.                   *)
(*                                                                         *)
(* Strings that the program takes apart (deployment names, timestamps) are *)
(* sequences of one-character strings.  A python dict is a function from   *)
(* its keys to its values; an attribute that may be None and otherwise     *)
(* holds a dict is <<>> for None and <<d>> for the dict d.                 *)
(***************************************************************************)
EXTENDS Integers, Sequences, FiniteSets, TLC

\* ------------------------------------------------------------------------
\* Bounds of the model
\* ------------------------------------------------------------------------
\* last second of the clock
MaxClock == 1
\* number of operations one behaviour starts
MaxRuns == 2
\* largest replica count an event of the watch feed reports
MaxReplicas == 1
\* number of deletions other clients make
MaxExternals == 1
\* longest name a helper is called with directly
MaxNameLen == 5
\* longest list check_deployments is called with directly
MaxListLen == 3

\* ------------------------------------------------------------------------
\* Values
\* ------------------------------------------------------------------------
\* python None in the integer fields status.ready_replicas, status.replicas
None == -1

\* python None where a dict is expected (metadata.labels)
NoneDict == <<>>

Dict(d) == <<d>>

DigitChar == <<"0", "1", "2", "3", "4", "5", "6", "7", "8", "9">>

Digits == {DigitChar[i] : i \in 1..10}

Dash == "-"

Newline == "\n"

\* dtTimestamp.strftime("%Y%m%d%H%M%S"): zero padded, fixed width, digits
\* only; the model's instants are seconds 0..99 and the width is two.
strftime(dt) == <<DigitChar[((dt \div 10) % 10) + 1], DigitChar[(dt % 10) + 1]>>

\* getSimpleTimestamp(dtTimestamp): the caller passes the instant
getSimpleTimestamp(dtTimestamp) == strftime(dtTimestamp)

\* ------------------------------------------------------------------------
\* getDeploymentBaseName: re.sub(r'-\d+$', '', name)
\* ------------------------------------------------------------------------
\* '$' matches at the end of the string and before a newline that is the
\* last character of the string
DollarTail(name) ==
    IF Len(name) > 0 /\ name[Len(name)] = Newline THEN <<Newline>> ELSE <<>>

\* the length of the longest run of digits that ends at position n of s
RECURSIVE DigitRun(_, _)
DigitRun(s, n) ==
    IF n >= 1 /\ s[n] \in Digits THEN 1 + DigitRun(s, n - 1) ELSE 0

\* StripAtEnd for the pattern .\d+: any character where the dash should be
StripAtEnd_any_separator(s) ==
    LET d == DigitRun(s, Len(s))
    IN  IF d >= 1 /\ Len(s) - d >= 1
        THEN SubSeq(s, 1, Len(s) - d - 1)
        ELSE s

\* the part of s that -\d+ anchored at the end of s removes
StripAtEnd(s) ==
    LET d == DigitRun(s, Len(s))
    IN  IF d >= 1 /\ Len(s) - d >= 1 /\ s[Len(s) - d] = Dash
        THEN SubSeq(s, 1, Len(s) - d - 1)
        ELSE s

getDeploymentBaseName(name) ==
    LET tail == DollarTail(name)
        core == SubSeq(name, 1, Len(name) - Len(tail))
    IN  IF StripAtEnd(name) # name
        THEN StripAtEnd(name)
        ELSE IF StripAtEnd(core) # core
             THEN StripAtEnd(core) \o tail
             ELSE name

\* ------------------------------------------------------------------------
\* duplicate_deployment_config on the python object graph
\* ------------------------------------------------------------------------
\* A deployment as the API returns it (V1Deployment), by value:
\*   name, resource_version, labels     metadata.*
\*   tmpl_labels                        spec.template.metadata.labels
\*   replicas                           spec.replicas
\* The object graph of such a value: a heap, a sequence of objects indexed
\* by address, address 0 being None.
\*   1 the deployment   2 its metadata   3 metadata.labels
\*   4 spec.template.metadata            5 spec.template.metadata.labels
HeapSize == 5

ToHeap(body) ==
    << [metadata |-> 2, tmpl_metadata |-> 4, replicas |-> body.replicas],
       [name |-> body.name, resource_version |-> body.resource_version,
        labels |-> IF body.labels = NoneDict THEN 0 ELSE 3],
       IF body.labels = NoneDict THEN <<>> ELSE body.labels[1],
       [labels |-> IF body.tmpl_labels = NoneDict THEN 0 ELSE 5],
       IF body.tmpl_labels = NoneDict THEN <<>> ELSE body.tmpl_labels[1] >>

\* the value of the deployment object at address a
Load(heap, a) ==
    LET m == heap[heap[a].metadata]
        t == heap[heap[a].tmpl_metadata]
    IN  [name |-> m.name,
         resource_version |-> m.resource_version,
         labels |-> IF m.labels = 0 THEN NoneDict ELSE Dict(heap[m.labels]),
         tmpl_labels |-> IF t.labels = 0 THEN NoneDict ELSE Dict(heap[t.labels]),
         replicas |-> heap[a].replicas]

Shift(ref) == IF ref = 0 THEN 0 ELSE ref + HeapSize

\* copy.copy(body): one new object whose attributes are the same objects
ShallowCopy(heap) == heap \o << heap[1] >>

\* copy.deepcopy(body): every object reachable from the deployment is
\* copied; the new deployment is at address HeapSize + 1
DeepCopy(heap) ==
    heap \o << [heap[1] EXCEPT !.metadata = Shift(@), !.tmpl_metadata = Shift(@)],
               [heap[2] EXCEPT !.labels = Shift(@)],
               heap[3],
               [heap[4] EXCEPT !.labels = Shift(@)],
               heap[5] >>

\* d[key] = value on a dict
DictSet(d, key, value) ==
    [k \in DOMAIN d \cup {key} |-> IF k = key THEN value ELSE d[k]]

\* "%s-%s" % (newName, simpleTimestamp)
VersionedName(newName, simpleTimestamp) == newName \o <<Dash>> \o simpleTimestamp

\* the address of newBody
NewBody == HeapSize + 1

\* The statements of duplicate_deployment_config act on a frame: the heap
\* and the exception raised so far ("" for none).
\* newBody = copy.deepcopy(body)
Stmt265(body) == [heap |-> DeepCopy(ToHeap(body)), raised |-> ""]

\* newBody.metadata.name = "%s-%s" % (body.metadata.name, simpleTimestamp)
Stmt267_suffix_kept(f, simpleTimestamp) ==
    [f EXCEPT !.heap[f.heap[NewBody].metadata].name =
        VersionedName(f.heap[f.heap[1].metadata].name, simpleTimestamp)]

\* newName = getDeploymentBaseName(name=body.metadata.name)
\* newBody.metadata.name = "%s-%s" % (newName, simpleTimestamp)
Stmt267(f, simpleTimestamp) ==
    [f EXCEPT !.heap[f.heap[NewBody].metadata].name =
        VersionedName(getDeploymentBaseName(f.heap[f.heap[1].metadata].name),
                      simpleTimestamp)]

\* <the dict at ref>["patch"] = simpleTimestamp; None does not support
\* item assignment
SetPatch(f, ref, simpleTimestamp) ==
    IF f.raised # "" THEN f
    ELSE IF ref = 0 THEN [f EXCEPT !.raised = "TypeError"]
    ELSE [f EXCEPT !.heap[ref] = DictSet(@, "patch", simpleTimestamp)]

\* newBody.metadata.labels = {"patch": simpleTimestamp} where there are labels
Stmt268_labels_replaced(f, simpleTimestamp) ==
    IF f.heap[f.heap[NewBody].metadata].labels = 0
    THEN [f EXCEPT !.raised = "TypeError"]
    ELSE [f EXCEPT !.heap[f.heap[f.heap[NewBody].metadata].labels] =
                       [patch |-> simpleTimestamp]]

\* newBody.metadata.labels["patch"] = simpleTimestamp
Stmt268(f, simpleTimestamp) ==
    SetPatch(f, f.heap[f.heap[NewBody].metadata].labels, simpleTimestamp)

\* newBody.spec.template.metadata.labels["patch"] = simpleTimestamp
Stmt269(f, simpleTimestamp) ==
    SetPatch(f, f.heap[f.heap[NewBody].tmpl_metadata].labels, simpleTimestamp)

\* the statement left out: the copy keeps the resource version
Stmt270_skipped(f) == f

\* newBody.metadata.resource_version = ""
Stmt270(f) ==
    IF f.raised # "" THEN f
    ELSE [f EXCEPT !.heap[f.heap[NewBody].metadata].resource_version = <<>>]

\* the exception raised, the argument as it is after the call, and the
\* value returned
Outcome(f) ==
    [raised |-> f.raised,
     body |-> Load(f.heap, 1),
     newBody |-> IF f.raised = "" THEN Load(f.heap, NewBody) ELSE <<>>]

\* duplicate_deployment_config without the statement that labels the pod
\* template
duplicate_deployment_config_unlabelled_template(body, simpleTimestamp) ==
    Outcome(Stmt270(Stmt268(Stmt267(Stmt265(body), simpleTimestamp), simpleTimestamp)))

\* the statements in order, each on the frame the one before it leaves
duplicate_deployment_config(body, simpleTimestamp) ==
    CHOOSE r \in
        {Outcome(f270) : f270 \in
            {Stmt270(f269) : f269 \in
                {Stmt269(f268, simpleTimestamp) : f268 \in
                    {Stmt268(f267, simpleTimestamp) : f267 \in
                        {Stmt267(f265, simpleTimestamp) : f265 \in
                            {Stmt265(body)}}}}}} : TRUE

\* ------------------------------------------------------------------------
\* check_deployments
\* ------------------------------------------------------------------------
\* the loop of check_deployments from element i on, basenames being the
\* dict built so far; yields the exception raised ("" for none) and what
\* its message names
RECURSIVE CheckFrom(_, _, _)
CheckFrom(deployments, i, basenames) ==
    IF i > Len(deployments)
    THEN [raised |-> "", name |-> <<>>, basename |-> <<>>, existing |-> <<>>]
    ELSE LET basename == getDeploymentBaseName(deployments[i].name)
         IN  IF basename \in DOMAIN basenames
             THEN [raised |-> "K8sBasenameNotUniqueError",
                   name |-> deployments[i].name,
                   basename |-> basename,
                   existing |-> basenames[basename]]
             ELSE CheckFrom(deployments, i + 1,
                            DictSet(basenames, basename, deployments[i].name))

\* check_deployments with a loop that passes over the first element
check_deployments_from_second(deployments) == CheckFrom(deployments, 2, <<>>)

check_deployments(deployments) == CheckFrom(deployments, 1, <<>>)

\* ------------------------------------------------------------------------
\* The cluster API (ExtensionsV1beta1Api, CoreV1Api) as the program uses it
\* ------------------------------------------------------------------------
\* a label selector "key=value" against a label dict that may be None
Matches(labels, label_selector) ==
    /\ labels # NoneDict
    /\ label_selector.key \in DOMAIN labels[1]
    /\ labels[1][label_selector.key] = label_selector.value

\* the lists a python for loop may see when the API returns the set S:
\* the order is the backing store's
ItemLists(S) ==
    {l \in [1..Cardinality(S) -> S] : \A i, j \in 1..Cardinality(S) : l[i] = l[j] => i = j}

\* list_namespaced_deployment(field_selector="metadata.name=<name>").items
ListDeploymentsByName(cluster, name) == ItemLists({d \in cluster : d.name = name})

\* list_namespaced_deployment(label_selector=...).items
ListDeploymentsByLabel(cluster, label_selector) ==
    ItemLists({d \in cluster : Matches(d.labels, label_selector)})

\* list_namespaced_service(field_selector="metadata.name=<name>").items
ListServicesByName(svcs, name) == ItemLists({s \in svcs : s.name = name})

\* list_namespaced_service(label_selector=...).items
ListServicesByLabel(svcs, label_selector) ==
    ItemLists({s \in svcs : Matches(s.labels, label_selector)})

\* the resource version the server gives an object it stores
ServerVersion == <<"1">>

\* create_namespaced_deployment is refused for a name that exists (409) and
\* for a body that carries a resource version
CreateAccepted(cluster, body) ==
    /\ body.resource_version = <<>>
    /\ \A d \in cluster : d.name # body.name

CreateDeployment(cluster, body) ==
    cluster \cup {[body EXCEPT !.resource_version = ServerVersion]}

\* delete_namespaced_deployment is refused for a name that does not exist (404)
DeleteAccepted(cluster, name) == \E d \in cluster : d.name = name

DeleteDeployment(cluster, name) == {d \in cluster : d.name # name}

\* patch_namespaced_service(name, body): the body is the whole service
PatchService(svcs, name, body) == {s \in svcs : s.name # name} \cup {body}

\* one entry of the record of API calls an operation has issued
Call(call, name, body, ok) == [call |-> call, name |-> name, body |-> body, ok |-> ok]

\* ------------------------------------------------------------------------
\* State
\* ------------------------------------------------------------------------
VARIABLES
    clock,            \* datetime.datetime.utcnow(), in seconds
    utcnowDefault,    \* the default of getSimpleTimestamp's dtTimestamp
    deployments,      \* the deployments of the namespace
    services,         \* the services of the namespace
    pc,               \* where the operation is; "idle" for none, "ended"
                      \* when it has returned or raised
    op,               \* the operation last started
    label_selector,   \* trigger_smart_rollout's arguments
    cleanup,
    simpleTimestamp,  \* locals of the operation
    deps,
    depIdx,
    dep_copy,
    svcs,
    svcIdx,
    delIdx,
    outcome,          \* how the last operation ended; "" while none has
    failedAt,         \* the step that raised
    calls,            \* the API calls the operation has issued, in order
    runs,             \* the operations started so far
    found,            \* the items the operation's first list call returned
    dupCalls,         \* the calls of duplicate_deployment_config it made
    lastEvent,        \* the event the last watch received last
    readySeen,        \* the names a watch has seen ready in an event
    unretired,        \* the copies rollouts have made whose original is still
                      \* there: original, copy, selector and run of the rollout
    probe,            \* the last direct call of a helper: function, argument
                      \* and result
    externals         \* the deletions other clients have made

vars == <<clock, utcnowDefault, deployments, services, pc, op, label_selector,
          cleanup, simpleTimestamp, deps, depIdx, dep_copy, svcs, svcIdx,
          delIdx, outcome, failedAt, calls, runs, found, dupCalls, lastEvent,
          readySeen, unretired, probe, externals>>

cluster == <<deployments, services>>

args == <<op, label_selector, cleanup>>

locals == <<simpleTimestamp, deps, depIdx, dep_copy, svcs, svcIdx, delIdx>>

\* ------------------------------------------------------------------------
\* The namespaces a behaviour may start from
\* ------------------------------------------------------------------------
AppX == [key |-> "app", value |-> <<"x">>]

AppY == [key |-> "app", value |-> <<"y">>]

Selectors == {AppX, AppY}

Deployment(name, labels, tmpl_labels) ==
    [name |-> name, resource_version |-> <<"7">>, labels |-> labels,
     tmpl_labels |-> tmpl_labels, replicas |-> 1]

DeploymentCatalogue ==
    { Deployment(<<"a", "-", "1">>, Dict([app |-> <<"x">>]), Dict([app |-> <<"x">>])),
      Deployment(<<"a", "-", "2">>, Dict([app |-> <<"x">>]), Dict([app |-> <<"x">>])),
      Deployment(<<"b">>, Dict([app |-> <<"x">>, patch |-> <<"9">>]),
                 Dict([app |-> <<"x">>, patch |-> <<"9">>])),
      Deployment(<<"c">>, NoneDict, Dict([app |-> <<"z">>])) }

Service(name, selector) ==
    [name |-> name, labels |-> Dict([app |-> <<"x">>]), selector |-> selector]

ServiceCatalogue ==
    { Service(<<"s", "1">>, Dict([app |-> <<"x">>])),
      Service(<<"s", "2">>, Dict([app |-> <<"x">>, patch |-> <<"9">>])) }

\* a name no deployment has
Missing == <<"m">>

NoEvent == [name |-> <<>>, ready_replicas |-> None, replicas |-> None]

Counts == {None} \cup (0..MaxReplicas)

\* the events the feed of the namespace may deliver while name is waited
\* for: about that deployment and about others
Events(name) ==
    [name : {name, deps[depIdx].name},
     ready_replicas : Counts, replicas : Counts]

\* ------------------------------------------------------------------------
\* The locator functions, on the items their list call returned
\* ------------------------------------------------------------------------
NotFound(exc) == [raised |-> exc, value |-> <<>>]

Found(value) == [raised |-> "", value |-> value]

get_namespaced_deployment(items) ==
    IF Len(items) < 1 THEN NotFound("K8sDeploymentNotFoundError") ELSE Found(items[1])

get_namespaced_deployments(items) ==
    IF Len(items) < 1 THEN NotFound("K8sDeploymentNotFoundError") ELSE Found(items)

get_namespaced_service(items) ==
    IF Len(items) < 1 THEN NotFound("K8sServiceNotFoundError") ELSE Found(items[1])

get_namespaced_services(items) ==
    IF Len(items) < 1 THEN NotFound("K8sServiceNotFoundError") ELSE Found(items)

\* serviceBody.spec.selector = {"patch": simpleTimestamp}
ServicePatchBody_selector_replaced(serviceBody, timestamp) ==
    [serviceBody EXCEPT !.selector = Dict([patch |-> timestamp])]

\* serviceBody.spec.selector["patch"] = simpleTimestamp
ServicePatchBody(serviceBody, timestamp) ==
    [serviceBody EXCEPT !.selector = Dict(DictSet(@[1], "patch", timestamp))]

\* the test watch_namespaced_deployment makes on an event
IsReady(event, name) ==
    /\ event.name = name
    /\ event.ready_replicas # None
    /\ event.replicas # None
    /\ event.ready_replicas >= event.replicas

\* ------------------------------------------------------------------------
\* How an operation ends
\* ------------------------------------------------------------------------
Raise(exc, at) ==
    /\ pc' = "ended"
    /\ outcome' = exc
    /\ failedAt' = at

Return ==
    /\ pc' = "ended"
    /\ outcome' = "Done"
    /\ failedAt' = ""

Goto(label) ==
    /\ pc' = label
    /\ UNCHANGED <<outcome, failedAt>>

\* an operation is called
Begin(name) ==
    /\ pc = "idle"
    /\ runs < MaxRuns
    /\ runs' = runs + 1
    /\ op' = name
    /\ UNCHANGED <<svcs, svcIdx, delIdx, lastEvent, readySeen>>

\* the locals of an operation that is not running, and what is recorded of it
NoOperation ==
    /\ op = ""
    /\ label_selector = <<>>
    /\ cleanup = TRUE
    /\ simpleTimestamp = <<>>
    /\ deps = <<>>
    /\ depIdx = 0
    /\ dep_copy = <<>>
    /\ svcs = <<>>
    /\ svcIdx = 0
    /\ delIdx = 0
    /\ outcome = ""
    /\ failedAt = ""
    /\ calls = <<>>
    /\ found = <<>>
    /\ dupCalls = <<>>
    /\ lastEvent = NoEvent
    /\ readySeen = {}

\* no helper has been called directly
NoProbe == [fn |-> "", arg |-> <<>>, result |-> <<>>, done |-> FALSE]

\* the operation has returned or raised and its caller goes on: its locals
\* are gone
Exit ==
    /\ pc = "ended"
    /\ pc' = "idle"
    /\ op' = ""
    /\ label_selector' = <<>>
    /\ cleanup' = TRUE
    /\ simpleTimestamp' = <<>>
    /\ deps' = <<>>
    /\ depIdx' = 0
    /\ dep_copy' = <<>>
    /\ svcs' = <<>>
    /\ svcIdx' = 0
    /\ delIdx' = 0
    /\ outcome' = ""
    /\ failedAt' = ""
    /\ calls' = <<>>
    /\ found' = <<>>
    /\ dupCalls' = <<>>
    /\ lastEvent' = NoEvent
    /\ readySeen' = {}
    /\ UNCHANGED <<clock, utcnowDefault, probe, externals, unretired,
                   cluster, runs>>

\* ------------------------------------------------------------------------
\* trigger_smart_rollout
\* ------------------------------------------------------------------------
\* up to the loop over the deployments: the timestamp, the discovery of the
\* deployments and their check
trigger_smart_rollout(selector, withCleanup) ==
    /\ Begin("trigger_smart_rollout")
    /\ label_selector' = selector
    /\ cleanup' = withCleanup
    /\ simpleTimestamp' = getSimpleTimestamp(utcnowDefault)
    /\ dep_copy' = <<>>
    /\ dupCalls' = <<>>
    /\ \E ok \in BOOLEAN, items \in ListDeploymentsByLabel(deployments, selector) :
          LET got == get_namespaced_deployments(items)
          IN  /\ calls' = <<Call("list_namespaced_deployment", <<>>, <<>>, ok)>>
              /\ IF ~ok
                 THEN /\ found' = <<>> /\ deps' = <<>> /\ depIdx' = 0
                      /\ Raise("ApiException", "discover")
                 ELSE /\ found' = items
                      /\ IF got.raised # ""
                         THEN /\ deps' = <<>> /\ depIdx' = 0
                              /\ Raise(got.raised, "discover")
                         ELSE /\ deps' = got.value
                              /\ IF check_deployments(got.value).raised # ""
                                 THEN /\ depIdx' = 0
                                      /\ Raise(check_deployments(got.value).raised, "check")
                                 ELSE /\ depIdx' = 1
                                      /\ pc' = "create"
                                      /\ outcome' = ""
                                      /\ failedAt' = ""
    /\ UNCHANGED <<clock, utcnowDefault, probe, externals, unretired,
                   cluster>>

\* the two generations a rollout leaves behind when it has created newName
\* from original
Generation(original, newName) ==
    [original |-> original, copy |-> newName, selector |-> label_selector, run |-> runs]

\* none when the original is no longer there
Generations(original, newName) ==
    IF DeleteAccepted(deployments, original)
    THEN {Generation(original, newName)}
    ELSE {}

\* the generations of which neither deployment is the one deleted
Surviving(generations, name) ==
    {g \in generations : g.original # name /\ g.copy # name}

\* create_namespaced_deployment(body=dep_copy) in the rollout, and the
\* opening of the watch that follows it
CreateCopy(newBody, accepted) ==
    /\ calls' = IF accepted
                THEN calls \o <<Call("create_namespaced_deployment", newBody.name, newBody,
                                     TRUE),
                                Call("watch list_namespaced_deployment", newBody.name, <<>>,
                                     TRUE)>>
                ELSE Append(calls, Call("create_namespaced_deployment", newBody.name,
                                        newBody, FALSE))
    /\ IF accepted
       THEN /\ deployments' = CreateDeployment(deployments, newBody)
            /\ unretired' = unretired \cup Generations(deps[depIdx].name, newBody.name)
            /\ Goto("watch")
       ELSE /\ UNCHANGED <<deployments, unretired>>
            /\ Raise("ApiException", "create")

\* the turn of the loop, r being what duplicate_deployment_config yields
CopyAndCreate(r) ==
    /\ deps' = [deps EXCEPT ![depIdx] = r.body]
    /\ dupCalls' = Append(dupCalls, [body |-> deps[depIdx],
                                     simpleTimestamp |-> simpleTimestamp,
                                     result |-> r])
    /\ IF r.raised # ""
       THEN /\ Raise(r.raised, "duplicate")
            /\ UNCHANGED <<dep_copy, deployments, calls, unretired>>
       ELSE /\ dep_copy' = r.newBody
            /\ \E ok \in BOOLEAN :
                  CreateCopy(r.newBody, ok /\ CreateAccepted(deployments, r.newBody))

\* one turn of the loop over the deployments, up to the wait: the copy of
\* deps[depIdx] is made and submitted
rollout_create ==
    /\ pc = "create"
    /\ CopyAndCreate(duplicate_deployment_config(deps[depIdx], simpleTimestamp))
    /\ lastEvent' = NoEvent
    /\ UNCHANGED <<clock, utcnowDefault, probe, externals,
                   services, args, simpleTimestamp, depIdx,
                   svcs, svcIdx, delIdx, runs, found, readySeen>>

\* watch_namespaced_deployment has returned: the next turn of the loop, or
\* the discovery of the services
AfterWatch ==
    IF depIdx < Len(deps)
    THEN /\ depIdx' = depIdx + 1
         /\ Goto("create")
    ELSE /\ UNCHANGED depIdx
         /\ Goto("services")

\* the loop of watch_namespaced_deployment receives an event
WatchEvent(event) ==
    /\ lastEvent' = event
    /\ IF IsReady(event, dep_copy.name)
       THEN /\ readySeen' = readySeen \cup {dep_copy.name}
            /\ AfterWatch
       ELSE /\ UNCHANGED <<readySeen, depIdx, pc, outcome, failedAt>>
    /\ UNCHANGED <<clock, utcnowDefault, probe, externals, unretired,
                   cluster, args, simpleTimestamp, deps, dep_copy,
                   svcs, svcIdx, delIdx, calls, runs, found, dupCalls>>

watch_event ==
    /\ pc = "watch"
    /\ \E event \in Events(dep_copy.name) : WatchEvent(event)

\* the stream is exhausted: the for loop ends and the function returns None
watch_stream_end ==
    /\ pc = "watch"
    /\ AfterWatch
    /\ UNCHANGED <<clock, utcnowDefault, probe, externals, unretired,
                   cluster, args, simpleTimestamp, deps, dep_copy,
                   svcs, svcIdx, delIdx, calls, runs, found, dupCalls, lastEvent,
                   readySeen>>

\* the stream raises and the rollout deletes the copy it was waiting for
watch_stream_error_with_rollback ==
    /\ pc = "watch"
    /\ Raise("ApiException", "watch")
    /\ calls' = Append(calls, Call("delete_namespaced_deployment", dep_copy.name, <<>>,
                                   TRUE))
    /\ deployments' = DeleteDeployment(deployments, dep_copy.name)
    /\ UNCHANGED <<clock, utcnowDefault, probe, externals, unretired,
                   services, args, locals, runs, found, dupCalls,
                   lastEvent, readySeen>>

\* the stream raises
watch_stream_error ==
    /\ pc = "watch"
    /\ Raise("ApiException", "watch")
    /\ UNCHANGED <<clock, utcnowDefault, probe, externals, unretired,
                   cluster, args, locals, calls, runs, found,
                   dupCalls, lastEvent, readySeen>>

\* the discovery of the services, after the loop over the deployments
rollout_find_services ==
    /\ pc = "services"
    /\ \E ok \in BOOLEAN, items \in ListServicesByLabel(services, label_selector) :
          LET got == get_namespaced_services(items)
          IN  /\ calls' = Append(calls, Call("list_namespaced_service", <<>>, <<>>, ok))
              /\ IF ~ok
                 THEN /\ Raise("ApiException", "services")
                      /\ UNCHANGED <<svcs, svcIdx>>
                 ELSE IF got.raised # ""
                 THEN /\ Raise(got.raised, "services")
                      /\ UNCHANGED <<svcs, svcIdx>>
                 ELSE /\ svcs' = got.value
                      /\ svcIdx' = 1
                      /\ Goto("patch")
    /\ lastEvent' = NoEvent
    /\ UNCHANGED <<clock, utcnowDefault, probe, externals, unretired,
                   cluster, args, simpleTimestamp, deps, depIdx,
                   dep_copy, delIdx, runs, found, dupCalls, readySeen>>

\* AfterPatch with the test of cleanup inverted
AfterPatch_cleanup_inverted ==
    IF svcIdx < Len(svcs)
    THEN /\ svcIdx' = svcIdx + 1
         /\ Goto("patch")
         /\ UNCHANGED delIdx
    ELSE IF ~cleanup
    THEN /\ delIdx' = 1
         /\ Goto("delete")
         /\ UNCHANGED svcIdx
    ELSE /\ Return
         /\ UNCHANGED <<svcIdx, delIdx>>

\* AfterPatch with the cleanup inside the loop over the services
AfterPatch_cleanup_in_loop ==
    IF cleanup
    THEN /\ delIdx' = 1
         /\ Goto("delete")
         /\ UNCHANGED svcIdx
    ELSE IF svcIdx < Len(svcs)
    THEN /\ svcIdx' = svcIdx + 1
         /\ Goto("patch")
         /\ UNCHANGED delIdx
    ELSE /\ Return
         /\ UNCHANGED <<svcIdx, delIdx>>

\* the loop over the services has patched svcs[svcIdx]: its next turn, the
\* loop over the old deployments, or the end
AfterPatch ==
    IF svcIdx < Len(svcs)
    THEN /\ svcIdx' = svcIdx + 1
         /\ Goto("patch")
         /\ UNCHANGED delIdx
    ELSE IF cleanup
    THEN /\ delIdx' = 1
         /\ Goto("delete")
         /\ UNCHANGED svcIdx
    ELSE /\ Return
         /\ UNCHANGED <<svcIdx, delIdx>>

\* one turn of the loop over the services: patch_namespaced_service fetches
\* the service by name, sets the patch key of its selector and submits it
rollout_patch_service ==
    /\ pc = "patch"
    /\ \E okGet \in BOOLEAN, okPatch \in BOOLEAN,
          items \in ListServicesByName(services, svcs[svcIdx].name) :
          LET name == svcs[svcIdx].name
              got == get_namespaced_service(items)
              list == Call("list_namespaced_service", name, <<>>, okGet)
          IN  IF ~okGet
              THEN /\ calls' = Append(calls, list)
                   /\ Raise("ApiException", "patch")
                   /\ UNCHANGED <<services, svcIdx, delIdx>>
              ELSE IF got.raised # ""
              THEN /\ calls' = Append(calls, list)
                   /\ Raise(got.raised, "patch")
                   /\ UNCHANGED <<services, svcIdx, delIdx>>
              ELSE IF got.value.selector = NoneDict
              THEN /\ calls' = Append(calls, list)
                   /\ Raise("TypeError", "patch")
                   /\ UNCHANGED <<services, svcIdx, delIdx>>
              ELSE LET serviceBody == ServicePatchBody(got.value, simpleTimestamp)
                   IN  /\ calls' = calls \o <<list, Call("patch_namespaced_service", name,
                                                         serviceBody, okPatch)>>
                       /\ IF okPatch
                          THEN /\ services' = PatchService(services, name, serviceBody)
                               /\ AfterPatch
                          ELSE /\ Raise("ApiException", "patch")
                               /\ UNCHANGED <<services, svcIdx, delIdx>>
    /\ UNCHANGED <<clock, utcnowDefault, probe, externals, unretired,
                   deployments, args, simpleTimestamp, deps, depIdx,
                   dep_copy, svcs, runs, found, dupCalls, lastEvent, readySeen>>

\* one turn of the loop over the old deployments
rollout_delete_old ==
    /\ pc = "delete"
    /\ \E ok \in BOOLEAN :
          LET name == deps[delIdx].name
              accepted == ok /\ DeleteAccepted(deployments, name)
          IN  /\ calls' = Append(calls, Call("delete_namespaced_deployment", name, <<>>,
                                             accepted))
              /\ IF accepted
                 THEN /\ deployments' = DeleteDeployment(deployments, name)
                      /\ unretired' = Surviving(unretired, name)
                      /\ IF delIdx < Len(deps)
                         THEN /\ delIdx' = delIdx + 1
                              /\ Goto("delete")
                         ELSE /\ Return
                              /\ UNCHANGED delIdx
                 ELSE /\ Raise("ApiException", "delete")
                      /\ UNCHANGED <<deployments, delIdx, unretired>>
    /\ UNCHANGED <<clock, utcnowDefault, probe, externals,
                   services, args, simpleTimestamp, deps, depIdx,
                   dep_copy, svcs, svcIdx, runs, found, dupCalls, lastEvent, readySeen>>

\* ------------------------------------------------------------------------
\* duplicate_deployment
\* ------------------------------------------------------------------------
\* the lookup has raised exc
LookupFailed(list, items, exc) ==
    /\ calls' = <<list>>
    /\ found' = items
    /\ Raise(exc, "discover")
    /\ deps' = <<>>
    /\ simpleTimestamp' = <<>>
    /\ dep_copy' = <<>>
    /\ dupCalls' = <<>>
    /\ UNCHANGED deployments

\* create_namespaced_deployment(body=dep_copy) in duplicate_deployment
CreateDuplicate(list, newBody, accepted) ==
    /\ calls' = <<list, Call("create_namespaced_deployment", newBody.name, newBody,
                             accepted)>>
    /\ dep_copy' = newBody
    /\ IF accepted
       THEN /\ deployments' = CreateDeployment(deployments, newBody)
            /\ Return
       ELSE /\ UNCHANGED deployments
            /\ Raise("ApiException", "create")

\* from the timestamp on, dep being the deployment found and r what
\* duplicate_deployment_config yields for it
Duplicate(list, dep, timestamp, r, okCreate) ==
    /\ simpleTimestamp' = timestamp
    /\ deps' = <<r.body>>
    /\ dupCalls' = <<[body |-> dep, simpleTimestamp |-> timestamp, result |-> r]>>
    /\ IF r.raised # ""
       THEN /\ calls' = <<list>>
            /\ dep_copy' = <<>>
            /\ Raise(r.raised, "duplicate")
            /\ UNCHANGED deployments
       ELSE CreateDuplicate(list, r.newBody,
                            okCreate /\ CreateAccepted(deployments, r.newBody))

\* from the lookup on, got being what get_namespaced_deployment yields
LookupAndDuplicate(list, items, got, timestamp, okCreate) ==
    IF got.raised # ""
    THEN LookupFailed(list, items, got.raised)
    ELSE /\ found' = items
         /\ Duplicate(list, got.value, timestamp,
                      duplicate_deployment_config(got.value, timestamp), okCreate)

duplicate_deployment(name) ==
    /\ Begin("duplicate_deployment")
    /\ depIdx' = 0
    /\ \E okList \in BOOLEAN, okCreate \in BOOLEAN,
          items \in ListDeploymentsByName(deployments, name) :
          IF ~okList
          THEN LookupFailed(Call("list_namespaced_deployment", name, <<>>, FALSE), <<>>,
                            "ApiException")
          ELSE LookupAndDuplicate(Call("list_namespaced_deployment", name, <<>>, TRUE),
                                  items, get_namespaced_deployment(items),
                                  getSimpleTimestamp(utcnowDefault), okCreate)
    /\ UNCHANGED <<clock, utcnowDefault, probe, externals, unretired,
                   services, label_selector, cleanup>>

\* ------------------------------------------------------------------------
\* The environment
\* ------------------------------------------------------------------------
\* a second passes: between operations, or while one waits for the feed
\* (the other steps of an operation take no time)
Tick ==
    /\ pc \in {"idle", "watch"}
    /\ clock < MaxClock
    /\ clock' = clock + 1
    /\ UNCHANGED <<utcnowDefault, probe, externals, unretired,
                   cluster, pc, args, locals, outcome, failedAt, calls,
                   runs, found, dupCalls, lastEvent, readySeen>>

\* a new process loads the module: the def statements are executed and the
\* default of dtTimestamp is evaluated
ImportModule ==
    /\ pc = "idle"
    /\ utcnowDefault # clock
    /\ utcnowDefault' = clock
    /\ UNCHANGED <<clock, probe, externals, unretired,
                   cluster, pc, args, locals, outcome, failedAt, calls, runs,
                   found, dupCalls, lastEvent, readySeen>>

Init ==
    /\ clock = 0
    /\ utcnowDefault = 0
    /\ deployments \in SUBSET DeploymentCatalogue
    /\ services \in SUBSET ServiceCatalogue
    /\ pc = "idle"
    /\ runs = 0
    /\ unretired = {}
    /\ probe = NoProbe
    /\ externals = 0
    /\ NoOperation

Next ==
    \/ \E selector \in Selectors, withCleanup \in BOOLEAN :
          trigger_smart_rollout(selector, withCleanup)
    \/ rollout_create
    \/ watch_event
    \/ watch_stream_end
    \/ watch_stream_error
    \/ rollout_find_services
    \/ rollout_patch_service
    \/ rollout_delete_old
    \/ \E name \in {d.name : d \in deployments} \cup {Missing} : duplicate_deployment(name)
    \/ Exit
    \/ Tick
    \/ ImportModule

Spec == Init /\ [][Next]_vars

\* ------------------------------------------------------------------------
\* The namespace with other clients that delete what the program works on
\* ------------------------------------------------------------------------
\* everything but the namespace, unretired and externals
process == <<clock, utcnowDefault, pc, args, locals, outcome, failedAt, calls, runs,
             found, dupCalls, lastEvent, readySeen, probe>>

\* another client deletes a deployment
external_delete_deployment ==
    /\ externals < MaxExternals
    /\ externals' = externals + 1
    /\ \E d \in deployments :
          /\ deployments' = DeleteDeployment(deployments, d.name)
          /\ unretired' = Surviving(unretired, d.name)
    /\ UNCHANGED <<services, process>>

\* another client deletes a service
external_delete_service ==
    /\ externals < MaxExternals
    /\ externals' = externals + 1
    /\ \E s \in services : services' = services \ {s}
    /\ UNCHANGED <<deployments, unretired, process>>

\* one process that starts rollouts in a namespace of two deployments of
\* different base names and two services, which other clients delete from
InitExternal ==
    /\ Init
    /\ deployments = {d \in DeploymentCatalogue : d.name \in {<<"a", "-", "1">>, <<"b">>}}
    /\ services = ServiceCatalogue

NextExternal ==
    \/ \E selector \in Selectors, withCleanup \in BOOLEAN :
          trigger_smart_rollout(selector, withCleanup)
    \/ rollout_create
    \/ watch_event
    \/ watch_stream_end
    \/ watch_stream_error
    \/ rollout_find_services
    \/ rollout_patch_service
    \/ rollout_delete_old
    \/ Exit
    \/ Tick
    \/ external_delete_deployment
    \/ external_delete_service

SpecExternal == InitExternal /\ [][NextExternal]_vars

\* ------------------------------------------------------------------------
\* Rollouts that go on and a feed that reports readiness
\* ------------------------------------------------------------------------
\* the feed delivers an event that reports the awaited copy ready
watch_ready ==
    /\ pc = "watch"
    /\ \E event \in Events(dep_copy.name) :
          IsReady(event, dep_copy.name) /\ WatchEvent(event)

\* one process that starts rollouts in a namespace of two deployments of
\* different base names and any of the services
InitLive ==
    /\ Init
    /\ deployments = {d \in DeploymentCatalogue : d.name \in {<<"a", "-", "1">>, <<"b">>}}

NextLive ==
    \/ \E selector \in Selectors, withCleanup \in BOOLEAN :
          trigger_smart_rollout(selector, withCleanup)
    \/ rollout_create
    \/ watch_event
    \/ watch_stream_end
    \/ watch_stream_error
    \/ rollout_find_services
    \/ rollout_patch_service
    \/ rollout_delete_old
    \/ Exit

\* the interpreter executes the next statement of a rollout that is not
\* blocked; while a rollout waits, the feed reports the copy ready unless it
\* ends or raises before
Fairness ==
    /\ WF_vars(rollout_create)
    /\ WF_vars(rollout_find_services)
    /\ WF_vars(rollout_patch_service)
    /\ WF_vars(rollout_delete_old)
    /\ WF_vars(watch_ready)

SpecLive == InitLive /\ [][NextLive]_vars /\ Fairness

\* ------------------------------------------------------------------------
\* The helper functions of the module called directly, on arguments of the
\* caller's choice
\* ------------------------------------------------------------------------
\* everything but probe
program == <<clock, utcnowDefault, deployments, services, pc, op, label_selector,
             cleanup, simpleTimestamp, deps, depIdx, dep_copy, svcs, svcIdx,
             delIdx, outcome, failedAt, calls, runs, found, dupCalls, lastEvent,
             readySeen, unretired, externals>>

\* the characters of the names: a letter, another, the dash and two digits
NameChars == {"a", "v", Dash, "1", "2"}

Names == UNION {[1..n -> NameChars] : n \in 0..MaxNameLen}

\* the names of the deployments check_deployments and
\* duplicate_deployment_config are given
ListNames ==
    { <<"a">>, <<"a", "-", "1">>, <<"a", "-", "2">>, <<"a", "-", "1", "-", "2">>,
      <<"a", "-", "v", "2">>, <<"b">>, <<"b", "-", "1">> }

\* lists of deployments of different names
DeploymentLists ==
    UNION { {l \in [1..n -> {Deployment(name, NoneDict, NoneDict) : name \in ListNames}] :
                \A i, j \in 1..n : l[i] = l[j] => i = j} : n \in 0..MaxListLen }

\* metadata.labels and spec.template.metadata.labels: None, empty, without
\* and with the key patch
LabelMaps ==
    { NoneDict, Dict(<<>>), Dict([app |-> <<"x">>]),
      Dict([app |-> <<"x">>, patch |-> <<"9">>]) }

Bodies ==
    [name : ListNames, resource_version : {<<>>, <<"7">>}, labels : LabelMaps,
     tmpl_labels : LabelMaps, replicas : 1..MaxReplicas]

Timestamps == {strftime(dt) : dt \in 0..MaxClock}

\* a call of fn with arg that has not returned yet
Pending(fn, arg) == [fn |-> fn, arg |-> arg, result |-> <<>>, done |-> FALSE]

\* the call that is pending has returned result
Returned(result) == [probe EXCEPT !.result = result, !.done = TRUE]

call_getDeploymentBaseName ==
    /\ probe.fn = "getDeploymentBaseName"
    /\ ~probe.done
    /\ probe' = Returned(getDeploymentBaseName(probe.arg))
    /\ UNCHANGED program

call_check_deployments ==
    /\ probe.fn = "check_deployments"
    /\ ~probe.done
    /\ probe' = Returned(check_deployments(probe.arg))
    /\ UNCHANGED program

call_duplicate_deployment_config ==
    /\ probe.fn = "duplicate_deployment_config"
    /\ ~probe.done
    /\ probe' = Returned(duplicate_deployment_config(probe.arg.body,
                                                      probe.arg.simpleTimestamp))
    /\ UNCHANGED program

\* no deployment, no service, no operation: one call of one helper
InitHelpers ==
    /\ clock = 0
    /\ utcnowDefault = 0
    /\ deployments = {}
    /\ services = {}
    /\ pc = "idle"
    /\ runs = 0
    /\ unretired = {}
    /\ externals = 0
    /\ NoOperation
    /\ probe \in {Pending("getDeploymentBaseName", name) : name \in Names}
               \cup {Pending("check_deployments", list) : list \in DeploymentLists}
               \cup {Pending("duplicate_deployment_config",
                              [body |-> body, simpleTimestamp |-> timestamp]) :
                          body \in Bodies, timestamp \in Timestamps}

NextHelpers ==
    \/ call_getDeploymentBaseName
    \/ call_check_deployments
    \/ call_duplicate_deployment_config

SpecHelpers == InitHelpers /\ [][NextHelpers]_vars

\* ------------------------------------------------------------------------
\* What the properties speak of
\* ------------------------------------------------------------------------
\* the positions in calls of the calls of one API method
CallsOf(method) == {i \in 1..Len(calls) : calls[i].call = method}

Creates == CallsOf("create_namespaced_deployment")

Patches == CallsOf("patch_namespaced_service")

Deletes == CallsOf("delete_namespaced_deployment")

Watches == CallsOf("watch list_namespaced_deployment")

\* the calls that create, patch or delete
Mutating == Creates \cup Patches \cup Deletes \cup CallsOf("patch_namespaced_deployment")

InRollout == op = "trigger_smart_rollout"

InDuplicate == op = "duplicate_deployment"

\* d has the key patch and its value is t
HasPatch(d, t) == d # NoneDict /\ "patch" \in DOMAIN d[1] /\ d[1]["patch"] = t

\* two of the items have the same base name
SharedBaseName(items) ==
    \E i, j \in 1..Len(items) :
        /\ i # j
        /\ getDeploymentBaseName(items[i].name) = getDeploymentBaseName(items[j].name)

\* what follows the last dash of a name
Suffix(name) == SubSeq(name, Len(getDeploymentBaseName(name)) + 2, Len(name))

\* the call of the helper fn that the behaviour makes has returned
Called(fn) == probe.fn = fn /\ probe.done

\* the dict d with the key patch set to t and every other key as it was
WithPatch(d, t) ==
    [k \in DOMAIN d \cup {"patch"} |-> IF k = "patch" THEN t ELSE d[k]]

\* the positions of items whose base name is that of an earlier item
Repeats(items) ==
    {i \in 1..Len(items) :
        \E j \in 1..(i - 1) :
            getDeploymentBaseName(items[j].name) = getDeploymentBaseName(items[i].name)}

\* the least element of a set of numbers that is not empty
Least(S) == CHOOSE i \in S : \A j \in S : i <= j

\* call i is preceded by a list call of the method fetch for the same name,
\* with no creating, patching or deleting call between the two
Refetched(i, fetch) ==
    \E j \in 1..(i - 1) :
        /\ calls[j].call = fetch
        /\ calls[j].name = calls[i].name
        /\ \A k \in (j + 1)..(i - 1) : k \notin Mutating

\* the generations that a rollout before the running one has left behind
\* for the selector of the running one
LeftBehind == {g \in unretired : g.run < runs /\ g.selector = label_selector}

\* the deployments of the namespace that the selector of the operation matches
UnderSelector == {d \in deployments : Matches(d.labels, label_selector)}

\* the base names of a set of names
BaseNames(names) == {getDeploymentBaseName(name) : name \in names}

\* the names the calls of a set of positions of calls have succeeded for
Succeeded(positions) == {calls[i].name : i \in {j \in positions : calls[j].ok}}

\* the r-th operation is a rollout that is past the check of the deployments
\* and has not ended
Running(r) == InRollout /\ runs = r /\ pc \notin {"idle", "ended"}

\* no API call of the operation was refused and no stream has raised
Unfailed == failedAt # "watch" /\ \A i \in 1..Len(calls) : calls[i].ok

\* the running watch, if any, has returned without raising
WatchReturned == pc = "services" \/ (pc = "create" /\ depIdx > 1)

\* ------------------------------------------------------------------------
\* Properties
\* ------------------------------------------------------------------------
\* C1: in trigger_smart_rollout no service is patched until every
\* deployment this rollout has created was seen on the watch feed with
\* ready_replicas and replicas present and ready_replicas >= replicas,
\* whatever the feed does, a feed that ends included.
C1_NoCutoverBeforeReady ==
    (InRollout /\ Patches # {}) =>
        \A i \in Creates : calls[i].ok => calls[i].name \in readySeen

\* C2: when two of the deployments discovered for the selector share a base
\* name, trigger_smart_rollout has raised K8sBasenameNotUniqueError and has
\* issued no create, patch or delete call.
C2_ConflictBeforeMutation ==
    (InRollout /\ SharedBaseName(found)) =>
        /\ pc = "ended"
        /\ outcome = "K8sBasenameNotUniqueError"
        /\ Mutating = {}

C2_Witness ==
    /\ InRollout
    /\ Len(found) >= 2
    /\ SharedBaseName(found)
    /\ pc = "ended"

\* C3: when the selector matches no deployment or no service, the rollout
\* fails with a not-found error during discovery: before any deployment is
\* created and before any other mutating call.
C3_NotFoundBeforeMutation ==
    (/\ InRollout
     /\ pc # "idle"
     /\ calls[1].ok
     /\ \/ found = <<>>
        \/ \A s \in services : ~Matches(s.labels, label_selector)) =>
        /\ Mutating = {}
        /\ (pc = "ended" /\ found = <<>>) =>
              /\ outcome = "K8sDeploymentNotFoundError"
              /\ failedAt = "discover"

\* C4: when the rollout fails while creating or awaiting the copy of the
\* k-th deployment, no service has been patched, no discovered deployment
\* has been deleted or changed, the copies created before still exist and
\* no delete call was issued.
C4_NoRollback ==
    (InRollout /\ pc = "ended" /\ failedAt \in {"create", "watch"}) =>
        /\ Patches = {}
        /\ Deletes = {}
        /\ \A i \in 1..Len(found) : found[i] \in deployments
        /\ \A i \in Creates :
              calls[i].ok => \E d \in deployments : d.name = calls[i].name

C4_Witness ==
    /\ InRollout
    /\ pc = "ended"
    /\ failedAt \in {"create", "watch"}
    /\ depIdx = 2
    /\ \E i \in Creates : calls[i].ok

\* C5: when the rollout ends successfully, every discovered deployment has
\* been deleted by its name if cleanup is set and none has been deleted if
\* it is not, and every service discovered has the patch key of its
\* selector set to the timestamp of the rollout.
C5_SuccessfulRollout ==
    (InRollout /\ pc = "ended" /\ outcome = "Done") =>
        /\ cleanup =>
              \A i \in 1..Len(found) :
                  /\ \E c \in Deletes : calls[c].ok /\ calls[c].name = found[i].name
                  /\ \A d \in deployments : d.name # found[i].name
        /\ ~cleanup =>
              /\ Deletes = {}
              /\ \A i \in 1..Len(found) : found[i] \in deployments
        /\ Len(svcs) >= 1
        /\ \A j \in 1..Len(svcs) :
              \E s \in services :
                  s.name = svcs[j].name /\ HasPatch(s.selector, simpleTimestamp)

C5_Witness ==
    /\ InRollout
    /\ pc = "ended"
    /\ outcome = "Done"
    /\ cleanup
    /\ Len(found) >= 2
    /\ Len(svcs) >= 2

\* C6: one timestamp serves a whole rollout: the name suffix, the label
\* patch and the pod template's label patch of every copy it submits, and
\* the selector's patch of every service it patches, are the same timestamp.
C6_OneTimestamp ==
    InRollout =>
        /\ \A i \in Creates :
              /\ Suffix(calls[i].body.name) = simpleTimestamp
              /\ HasPatch(calls[i].body.labels, simpleTimestamp)
              /\ HasPatch(calls[i].body.tmpl_labels, simpleTimestamp)
        /\ \A i \in Patches : HasPatch(calls[i].body.selector, simpleTimestamp)

C6_Witness ==
    /\ InRollout
    /\ Cardinality({i \in Creates : calls[i].ok}) >= 2
    /\ \E i \in Patches : calls[i].ok
    /\ clock # utcnowDefault

\* C7: an operation that computes a version timestamp computes it from the
\* clock at its own start, so that operations started at different seconds
\* of one process use different timestamps.
C7_FreshTimestamp ==
    [][(runs' # runs /\ simpleTimestamp' # <<>>) => simpleTimestamp' = strftime(clock)]_vars

\* C8: watch_namespaced_deployment(name) returns only upon an event for
\* name whose ready_replicas and replicas are present with
\* ready_replicas >= replicas, and at the first such event; without such an
\* event it does not return, also when the feed ends.
C8_ReturnsOnlyWhenReady ==
    /\ pc = "watch" => ~IsReady(lastEvent, dep_copy.name)
    /\ WatchReturned => IsReady(lastEvent, dep_copy.name)

\* C9: duplicate_deployment of a name the lookup does not find raises
\* K8sDeploymentNotFoundError and issues no create call; of a name it finds
\* it issues exactly one create call and no patch, delete, watch or service
\* call.
C9_DuplicateCalls ==
    (InDuplicate /\ pc = "ended" /\ calls[1].ok) =>
        /\ found = <<>> =>
              /\ outcome = "K8sDeploymentNotFoundError"
              /\ Creates = {}
        /\ found # <<>> =>
              /\ Cardinality(Creates) = 1
              /\ \A i \in 1..Len(calls) :
                    calls[i].call \in {"list_namespaced_deployment",
                                       "create_namespaced_deployment"}

\* C10: duplicate_deployment_config leaves its argument as it was: its
\* name, its labels, its pod template's labels and its resource version
\* after the call are those before the call.
C10_InputUnchanged ==
    \A i \in 1..Len(dupCalls) :
        /\ dupCalls[i].result.body.name = dupCalls[i].body.name
        /\ dupCalls[i].result.body.labels = dupCalls[i].body.labels
        /\ dupCalls[i].result.body.tmpl_labels = dupCalls[i].body.tmpl_labels
        /\ dupCalls[i].result.body.resource_version = dupCalls[i].body.resource_version

C10_Witness ==
    \E i \in 1..Len(dupCalls) :
        /\ dupCalls[i].result.raised = ""
        /\ dupCalls[i].result.newBody.name # dupCalls[i].body.name
        /\ dupCalls[i].result.newBody.labels # dupCalls[i].body.labels
        /\ dupCalls[i].result.newBody.resource_version # dupCalls[i].body.resource_version

\* C11: the deployment duplicate_deployment_config(s, t) returns is named
\* after the base name of s, a dash and t, has an empty resource version,
\* has the key patch set to t in its labels and in its pod template's
\* labels, and is s in every other label and in its replica count.
C11_DuplicateConfig ==
    (Called("duplicate_deployment_config") /\ probe.result.raised = "") =>
        LET s == probe.arg.body
            t == probe.arg.simpleTimestamp
            d == probe.result.newBody
        IN  /\ d.name = getDeploymentBaseName(s.name) \o <<"-">> \o t
            /\ d.resource_version = <<>>
            /\ d.labels = Dict(WithPatch(s.labels[1], t))
            /\ d.tmpl_labels = Dict(WithPatch(s.tmpl_labels[1], t))
            /\ d.replicas = s.replicas

C11_Witness ==
    /\ Called("duplicate_deployment_config")
    /\ probe.result.raised = ""
    /\ getDeploymentBaseName(probe.arg.body.name) # probe.arg.body.name
    /\ probe.arg.body.resource_version # <<>>
    /\ HasPatch(probe.arg.body.labels, <<"9">>)
    /\ DOMAIN probe.arg.body.tmpl_labels[1] = {"app"}

\* C12: getDeploymentBaseName applied to its own result returns that result,
\* also for a name that ends in two numeric segments such as a-1-2.
C12_Idempotent ==
    Called("getDeploymentBaseName") => getDeploymentBaseName(probe.result) = probe.result

\* C13: when the name ends with a dash followed by one or more digits,
\* getDeploymentBaseName returns the name without that one suffix; when it
\* does not (no suffix, a suffix that is not all digits, a dash at the very
\* end) it returns the name as it is.
C13_StripsOneSuffix ==
    Called("getDeploymentBaseName") =>
        LET x == probe.arg
            cuts == {k \in 1..(Len(x) - 1) :
                        x[k] = Dash /\ \A j \in (k + 1)..Len(x) : x[j] \in Digits}
        IN  IF cuts = {}
            THEN probe.result = x
            ELSE \A k \in cuts : probe.result = SubSeq(x, 1, k - 1)

C13_Witness ==
    /\ Called("getDeploymentBaseName")
    /\ probe.arg = <<"a", "-", "1", "-", "2">>
    /\ probe.result = <<"a", "-", "1">>

\* C14: check_deployments raises nothing exactly when no two deployments of
\* the list share a base name; when two do it raises
\* K8sBasenameNotUniqueError at the first element, in the order of the list,
\* whose base name is that of an earlier element, and the error names that
\* element, the base name and the earliest element with that base name.
C14_CheckDeployments ==
    Called("check_deployments") =>
        LET items == probe.arg
            first == Least(Repeats(items))
            basename == getDeploymentBaseName(items[first].name)
            earliest == Least({j \in 1..Len(items) :
                                 getDeploymentBaseName(items[j].name) = basename})
        IN  /\ probe.result.raised = "" <=> ~SharedBaseName(items)
            /\ SharedBaseName(items) =>
                  /\ probe.result.raised = "K8sBasenameNotUniqueError"
                  /\ probe.result.name = items[first].name
                  /\ probe.result.basename = basename
                  /\ probe.result.existing = items[earliest].name

C14_Witness ==
    /\ Called("check_deployments")
    /\ Len(probe.arg) = 3
    /\ Repeats(probe.arg) = {3}
    /\ probe.result.existing = probe.arg[1].name

\* C15: a turn of the loop over the services first lists the service by its
\* name; when the namespace no longer has a service of that name the turn
\* raises K8sServiceNotFoundError and submits no patch; a patch it submits
\* is the service as the namespace has it at that moment, with the key patch
\* of its selector set to the rollout's timestamp and every other key of
\* the selector as it is.
C15_PatchService ==
    [][(InRollout /\ pc = "patch" /\ calls' # calls) =>
          LET name == svcs[svcIdx].name
              here == {s \in services : s.name = name}
              fetch == calls'[Len(calls) + 1]
          IN  /\ fetch.call = "list_namespaced_service"
              /\ fetch.name = name
              /\ here = {} =>
                    /\ Len(calls') = Len(calls) + 1
                    /\ pc' = "ended"
                    /\ fetch.ok => outcome' = "K8sServiceNotFoundError"
              /\ \A i \in (Len(calls) + 2)..Len(calls') :
                    /\ calls'[i].call = "patch_namespaced_service"
                    /\ calls'[i].name = name
                    /\ \E s \in here :
                          calls'[i].body =
                              [s EXCEPT !.selector = Dict(WithPatch(s.selector[1],
                                                                    simpleTimestamp))]
      ]_vars

C15_Witness ==
    /\ InRollout
    /\ pc = "ended"
    /\ failedAt = "patch"
    /\ outcome = "K8sServiceNotFoundError"
    /\ \E i \in Patches : calls[i].ok /\ "app" \in DOMAIN calls[i].body.selector[1]

\* C16: the rollout handles the deployments one after the other: when it
\* issues the create call for a copy, every copy it has submitted before
\* was created and was seen ready on the watch feed (ready_replicas and
\* replicas present, ready_replicas >= replicas).
C16_Sequential ==
    InRollout =>
        \A i, j \in Creates :
            j < i => calls[j].ok /\ calls[j].name \in readySeen

\* C17: the rollout issues a delete call only after it has patched every
\* service it discovered, each successfully; when the patching of a service
\* fails, because another client has deleted the service or because the
\* API refuses, the rollout has issued no delete call, and the services it
\* patched before carry the new timestamp in their selector.
C17_NoDeleteBeforeCutover ==
    InRollout =>
        /\ Deletes # {} =>
              /\ Len(svcs) >= 1
              /\ \A j \in 1..Len(svcs) :
                    \E i \in Patches :
                        /\ calls[i].ok
                        /\ calls[i].name = svcs[j].name
                        /\ \A k \in Deletes : i < k
        /\ (pc = "ended" /\ failedAt = "patch") =>
              /\ Deletes = {}
              /\ \A i \in Patches, s \in services :
                    (calls[i].ok /\ s.name = calls[i].name) =>
                        HasPatch(s.selector, simpleTimestamp)

C17_Witness ==
    /\ InRollout
    /\ cleanup
    /\ pc = "ended"
    /\ failedAt = "patch"
    /\ outcome = "K8sServiceNotFoundError"
    /\ \E i \in Patches, s \in services : calls[i].ok /\ s.name = calls[i].name
    /\ \A i \in 1..Len(found) : found[i] \in deployments

\* C18: in a rollout every delete call for a discovered deployment and
\* every patch call for a service comes after a list call for that same
\* name that was issued after the last creating, patching or deleting call.
C18_RefetchBeforeMutation ==
    InRollout =>
        /\ \A i \in Patches : Refetched(i, "list_namespaced_service")
        /\ \A i \in Deletes : Refetched(i, "list_namespaced_deployment")

\* C19: every call of duplicate_deployment_config returns a deployment and
\* raises nothing, also for a deployment whose labels or whose pod
\* template's labels are None.
C19_Total ==
    \A i \in 1..Len(dupCalls) :
        /\ dupCalls[i].result.raised = ""
        /\ dupCalls[i].result.newBody # <<>>

\* C20: when a rollout has created a copy and has not deleted the copy's
\* original, and no other client has deleted either of the two since, a
\* later rollout for the same selector ends at once, with
\* K8sBasenameNotUniqueError when its list call succeeds, and issues no
\* create, patch or delete call.
C20_NextRolloutConflicts ==
    (InRollout /\ LeftBehind # {}) =>
        /\ pc = "ended"
        /\ Mutating = {}
        /\ calls[1].ok => outcome = "K8sBasenameNotUniqueError"

C20_Witness ==
    /\ InRollout
    /\ LeftBehind # {}
    /\ calls[1].ok
    /\ outcome = "K8sBasenameNotUniqueError"
    /\ externals > 0

\* C21: when a rollout with cleanup ends successfully in a namespace that
\* no other client changes, the selector matches exactly one deployment for
\* each base name of the deployments discovered, and each is one this
\* rollout has created: the base names are those discovered, they are
\* pairwise distinct, and no name the rollout deleted is a name it created.
C21_BatchInvariant ==
    (InRollout /\ pc = "ended" /\ outcome = "Done" /\ cleanup) =>
        LET originals == {found[i].name : i \in 1..Len(found)}
            finals == {d.name : d \in UnderSelector}
        IN  /\ Cardinality(BaseNames(originals)) = Cardinality(originals)
            /\ BaseNames(finals) = BaseNames(originals)
            /\ Cardinality(finals) = Cardinality(BaseNames(finals))
            /\ Cardinality(UnderSelector) = Cardinality(finals)
            /\ finals \subseteq Succeeded(Creates)
            /\ Succeeded(Deletes) \cap Succeeded(Creates) = {}

C21_Witness ==
    /\ InRollout
    /\ pc = "ended"
    /\ outcome = "Done"
    /\ cleanup
    /\ Len(found) >= 2
    /\ \E i \in 1..Len(found) : getDeploymentBaseName(found[i].name) # found[i].name
    /\ Cardinality(UnderSelector) = 2

\* C22: a rollout that has begun to create copies ends, and ends with Done
\* when no API call fails, provided the feed reports every copy ready while
\* the rollout waits for it; and the rollout leaves the wait for a copy
\* only on an event that reports the copy ready or because the feed ends or
\* raises, so that with a feed that does neither it waits for ever.
C22_Terminates ==
    /\ \A r \in 1..MaxRuns :
          Running(r) ~> (pc = "ended" /\ runs = r /\ (Unfailed => outcome = "Done"))
    /\ [][(pc = "watch" /\ pc' # "watch" /\ ~IsReady(lastEvent', dep_copy.name)) =>
              (watch_stream_end \/ watch_stream_error)]_vars

====
